---------------------------- MODULE Spec2Model ----------------------------
(***************************************************************************)
(* Breakout (src/main.rs): the frame loop of main, the entities and the    *)
(* AABB collision resolver.                                                *)
(*                                                                         *)
(* Numbers.  Positions and sizes are whole pixels.  A frame time dt is a   *)
(* number of tenths of a second (DtScale) and a velocity component a       *)
(* number of fifths (VelScale), so that every product the code forms,      *)
(* vel * dt * BALL_SPEED and x_move * dt * PADDLE_SPEED, is a whole number *)
(* of pixels and the f32 arithmetic of the code is exact on the values     *)
(* the model uses.                                                         *)
(***************************************************************************)
EXTENDS Integers, Sequences, FiniteSets, TLC

\* ------------------------------------------------------------------------
\* Program constants (main.rs:3-7, 183-184)
\* ------------------------------------------------------------------------
PADDLE_SIZE == [x |-> 150, y |-> 40]
PADDLE_SPEED == 700
BLOCK_SIZE == [x |-> 100, y |-> 40]
BALL_SIZE == 50
BALL_SPEED == 450
GridWidth == 6
GridHeight == 5
Padding == 5
BlockLives == 2
StartLives == 3
ScorePerBlock == 10
Retags == 3

\* Fixed-point scales of the model's numbers.
DtScale == 10
VelScale == 5
RandScale == 4

\* The window, as screen_width() and screen_height() report it.  The window
\* is the environment's; this one is small enough for the bottom row of the
\* board (y from 230 to 270) to reach the bottom of the screen.
ScreenWidth == 300
ScreenHeight == 250

\* ------------------------------------------------------------------------
\* Bounds of the model
\* ------------------------------------------------------------------------
\* Frames explored from the state main constructs; a round picked up in
\* mid-play starts with half of them spent.
MaxFrames == 4

\* get_frame_time(), in tenths of a second: no time, a short frame, and a
\* frame long enough to carry a ball across the whole screen.
DtChoices == {0, 1, 10}

\* rand::gen_range(-1f32, 1f32), in quarters: -0.75, 0 and 0.75.
RandXChoices == {-3, 0, 3}
\* rand::gen_range(0, blocks.len()): the grid indices the model draws.
RandIndexChoices == {21, 27}

VARIABLES
    game_state,     \* main.rs:219  "Menu" | "Game" | "Won" | "Dead"
    score,          \* main.rs:220
    player_lives,   \* main.rs:221
    paddle,         \* main.rs:223  [rect]
    blocks,         \* main.rs:224  sequence of [rect, lives, block_type]
    balls,          \* main.rs:225  sequence of [rect, vel]
    start_pressed,  \* is_key_pressed(KeyCode::Space) as the last frame read it
    obs,            \* what the last frame did (observer)
    hist,           \* per grid index: collisions, scorings, spawns (observer)
    tagged,         \* grid indices init_blocks retagged this round (observer)
    frame,          \* frames of the exploration budget spent
    probe           \* a call of resolve_collision on its own

vars == <<game_state, score, player_lives, paddle, blocks, balls,
          start_pressed, obs, hist, tagged, frame, probe>>

\* ------------------------------------------------------------------------
\* Rect and Vec2 (macroquad::math)
\* ------------------------------------------------------------------------
Max(a, b) == IF a >= b THEN a ELSE b
Min(a, b) == IF a <= b THEN a ELSE b
Abs(a) == IF a < 0 THEN -a ELSE a

RectNew(x, y, w, h) == [x |-> x, y |-> y, w |-> w, h |-> h]
Vec2(x, y) == [x |-> x, y |-> y]
Point(r) == Vec2(r.x, r.y)

None == [none |-> TRUE]

\* Rect::intersect: the overlap of two rects, None when they are apart.  Rects
\* that only touch along an edge have an intersection of width or height 0.
Intersect(a, b) ==
    LET left == Max(a.x, b.x)
        top == Max(a.y, b.y)
        right == Min(a.x + a.w, b.x + b.w)
        bottom == Min(a.y + a.h, b.y + b.h)
    IN  IF right < left \/ bottom < top
        THEN None
        ELSE RectNew(left, top, right - left, bottom - top)

\* f32::signum: 1 for a positive number and for +0.0, -1 for a negative one.
Signum(v) == IF v >= 0 THEN 1 ELSE -1

\* The integer square root, for the lengths the model normalizes.
Isqrt(n) == CHOOSE r \in 0 .. n : r * r <= n /\ (r + 1) * (r + 1) > n

\* Vec2::normalize of vec2(rx / RandScale, 1), as a velocity in fifths:
\* v / |v|.  RandXChoices are the x for which |v| is rational.
Normalize(rx) ==
    LET len == Isqrt(rx * rx + RandScale * RandScale)
    IN  Vec2((VelScale * rx) \div len, (VelScale * RandScale) \div len)

\* ------------------------------------------------------------------------
\* Entities
\* ------------------------------------------------------------------------
PaddleNew ==
    [rect |-> RectNew(ScreenWidth \div 2 - PADDLE_SIZE.x \div 2,
                      ScreenHeight - 100, PADDLE_SIZE.x, PADDLE_SIZE.y)]

\* Paddle::update without its check of the right wall.
PaddleUpdate_NoRightWall(p, left, right, dt) ==
    LET x_move == IF left /\ ~right THEN -1
                  ELSE IF ~left /\ right THEN 1
                  ELSE 0
        x1 == p.rect.x + (x_move * dt * PADDLE_SPEED) \div DtScale
        x2 == IF x1 < 0 THEN 0 ELSE x1
    IN  [p EXCEPT !.rect.x = x2]

\* Paddle::update with the two key states and dt
PaddleUpdate(p, left, right, dt) ==
    LET x_move == IF left /\ ~right THEN -1
                  ELSE IF ~left /\ right THEN 1
                  ELSE 0
        x1 == p.rect.x + (x_move * dt * PADDLE_SPEED) \div DtScale
        x2 == IF x1 < 0 THEN 0 ELSE x1
        x3 == IF x2 > ScreenWidth - p.rect.w THEN ScreenWidth - p.rect.w ELSE x2
    IN  [p EXCEPT !.rect.x = x3]

BlockNew(pos, block_type) ==
    [rect |-> RectNew(pos.x, pos.y, BLOCK_SIZE.x, BLOCK_SIZE.y),
     lives |-> BlockLives,
     block_type |-> block_type]

\* Ball::new with the random x it draws
BallNew(pos, rx) ==
    [rect |-> RectNew(pos.x, pos.y, BALL_SIZE, BALL_SIZE),
     vel |-> Normalize(rx)]

\* Ball::update
BallUpdate(ball, dt) ==
    LET x1 == ball.rect.x + (ball.vel.x * dt * BALL_SPEED) \div (VelScale * DtScale)
        y1 == ball.rect.y + (ball.vel.y * dt * BALL_SPEED) \div (VelScale * DtScale)
        vx1 == IF x1 < 0 THEN VelScale ELSE ball.vel.x
        vx2 == IF x1 > ScreenWidth - ball.rect.w THEN -VelScale ELSE vx1
        vy1 == IF y1 < 0 THEN VelScale ELSE ball.vel.y
    IN  [rect |-> [ball.rect EXCEPT !.x = x1, !.y = y1],
         vel |-> Vec2(vx2, vy1)]

\* resolve_collision bouncing the velocity before it looks at the intersection.
resolve_collision_FlipFirst(a, vel, b) ==
    LET intersection == Intersect(a, b)
        to_x == (2 * b.x + b.w) - (2 * a.x + a.w)
        to_y == (2 * b.y + b.h) - (2 * a.y + a.h)
        sx == Signum(to_x)
        sy == Signum(to_y)
        vel1 == [vel EXCEPT !.y = -sy * Abs(vel.y)]
    IN  IF intersection = None
        THEN [a |-> a, vel |-> vel1, hit |-> FALSE]
        ELSE IF intersection.w > intersection.h
             THEN [a |-> [a EXCEPT !.y = a.y - sy * intersection.h],
                   vel |-> vel1, hit |-> TRUE]
             ELSE [a |-> [a EXCEPT !.x = a.x - sx * intersection.w],
                   vel |-> [vel EXCEPT !.x = -sx * Abs(vel.x)], hit |-> TRUE]

\* resolve_collision bouncing on the y axis also when the intersection is as
\* wide as it is high.
resolve_collision_TieToY(a, vel, b) ==
    LET intersection == Intersect(a, b)
    IN  IF intersection = None
        THEN [a |-> a, vel |-> vel, hit |-> FALSE]
        ELSE LET to_x == (2 * b.x + b.w) - (2 * a.x + a.w)
                 to_y == (2 * b.y + b.h) - (2 * a.y + a.h)
                 sx == Signum(to_x)
                 sy == Signum(to_y)
             IN  IF intersection.w >= intersection.h
                 THEN [a |-> [a EXCEPT !.y = a.y - sy * intersection.h],
                       vel |-> [vel EXCEPT !.y = -sy * Abs(vel.y)],
                       hit |-> TRUE]
                 ELSE [a |-> [a EXCEPT !.x = a.x - sx * intersection.w],
                       vel |-> [vel EXCEPT !.x = -sx * Abs(vel.x)],
                       hit |-> TRUE]

\* resolve_collision(a, vel, b): the corrected rect and velocity, and the
\* value returned.  The centers are compared doubled, which keeps a half
\* pixel exact.
resolve_collision(a, vel, b) ==
    LET intersection == Intersect(a, b)
    IN  IF intersection = None
        THEN [a |-> a, vel |-> vel, hit |-> FALSE]
        ELSE LET to_x == (2 * b.x + b.w) - (2 * a.x + a.w)
                 to_y == (2 * b.y + b.h) - (2 * a.y + a.h)
                 sx == Signum(to_x)
                 sy == Signum(to_y)
             IN  IF intersection.w > intersection.h
                 THEN [a |-> [a EXCEPT !.y = a.y - sy * intersection.h],
                       vel |-> [vel EXCEPT !.y = -sy * Abs(vel.y)],
                       hit |-> TRUE]
                 ELSE [a |-> [a EXCEPT !.x = a.x - sx * intersection.w],
                       vel |-> [vel EXCEPT !.x = -sx * Abs(vel.x)],
                       hit |-> TRUE]

\* ------------------------------------------------------------------------
\* The board (init_blocks)
\* ------------------------------------------------------------------------
NumBlocks == GridWidth * GridHeight
GridIndices == 0 .. (NumBlocks - 1)

total_block_size == Vec2(BLOCK_SIZE.x + Padding, BLOCK_SIZE.y + Padding)
board_start_pos ==
    Vec2((ScreenWidth - total_block_size.x * GridWidth) \div 2, 50)

\* BlockPos with the row and the column of the index exchanged.
BlockPos_RowForColumn(i) ==
    Vec2(board_start_pos.x + (i \div GridWidth) * total_block_size.x,
         board_start_pos.y + (i % GridWidth) * total_block_size.y)

\* The position init_blocks gives the block of grid index i.
BlockPos(i) ==
    Vec2(board_start_pos.x + (i % GridWidth) * total_block_size.x,
         board_start_pos.y + (i \div GridWidth) * total_block_size.y)

\* The grid index of a block, which its position determines.
GridIndex(block) == CHOOSE i \in GridIndices : BlockPos(i) = Point(block.rect)

RECURSIVE Retag(_, _, _)
\* The loop of main.rs:195-198, from its n-th round on; rs are the indices drawn.
Retag(bs, rs, n) ==
    IF n > Len(rs)
    THEN bs
    ELSE Retag([bs EXCEPT ![rs[n] + 1].block_type = "SpawnBallOnDeath"], rs, n + 1)

\* init_blocks(blocks), with the Retags indices rand::gen_range draws.
init_blocks(bs, rs) ==
    LET pushed == bs \o [k \in 1 .. NumBlocks |-> BlockNew(BlockPos(k - 1), "Regular")]
    IN  Retag(pushed, rs, 1)

RandIndexSeqs == [1 .. Retags -> RandIndexChoices]

\* ------------------------------------------------------------------------
\* Observers
\* ------------------------------------------------------------------------
\* Per grid index, over the round: collisions registered with the block,
\* times the score was raised for it, balls queued for it.
NoHist == [i \in GridIndices |-> [hits |-> 0, scored |-> 0, spawned |-> 0]]

\* What the last frame did: the mode and the lives it started with and, in a
\* Game frame, balls.len() before and after `retain` (main.rs:266-268) and the
\* length of spawn_later; the number of balls the collision pass went over
\* and the positions it queued a ball at.  A frame of another arm touches no
\* ball.
IdleObs(mode, lives) ==
    [mode |-> mode, lives |-> lives, balls_len |-> 0, kept |-> 0, queued |-> 0,
     passed |-> 0, spawn_at |-> <<>>]

\* ------------------------------------------------------------------------
\* The collision pass of a Game frame (main.rs:244-261)
\* ------------------------------------------------------------------------
\* main.rs:250-257: a ball has hit block j.
HitBlock(st, j) ==
    LET block == st.blocks[j]
        i == GridIndex(block)
        lives1 == block.lives - 1
        dead == lives1 <= 0
        spawn == dead /\ block.block_type = "SpawnBallOnDeath"
    IN  [st EXCEPT
            !.blocks[j].lives = lives1,
            !.score = IF dead THEN @ + ScorePerBlock ELSE @,
            !.spawn_later = IF spawn THEN Append(@, Point(st.ball.rect)) ELSE @,
            !.hist[i].hits = @ + 1,
            !.hist[i].scored = IF dead THEN @ + 1 ELSE @,
            !.hist[i].spawned = IF spawn THEN @ + 1 ELSE @]

RECURSIVE BlockLoop(_, _)
\* main.rs:247-260: st.ball against the blocks from the j-th on.
BlockLoop(st, j) ==
    IF j > Len(st.blocks)
    THEN st
    ELSE LET r == resolve_collision(st.ball.rect, st.ball.vel, st.blocks[j].rect)
             moved == [st EXCEPT !.ball = [rect |-> r.a, vel |-> r.vel]]
         IN  BlockLoop(IF r.hit THEN HitBlock(moved, j) ELSE st, j + 1)

RECURSIVE BallLoop_PushDuring(_, _, _)
\* BallLoop pushing the frame's first spawned ball onto `balls` as soon as it
\* is queued, so that the loop goes over it too.
BallLoop_PushDuring(st, p, i) ==
    IF i > Len(st.balls)
    THEN st
    ELSE LET ball == st.balls[i]
             r == resolve_collision(ball.rect, ball.vel, p.rect)
             inner == BlockLoop([st EXCEPT !.ball = [rect |-> r.a, vel |-> r.vel]], 1)
             fresh == IF st.spawn_later = <<>> /\ inner.spawn_later # <<>>
                      THEN <<BallNew(inner.spawn_later[1], 0)>>
                      ELSE <<>>
         IN  BallLoop_PushDuring(
                 [inner EXCEPT !.balls = [@ EXCEPT ![i] = inner.ball] \o fresh],
                 p, i + 1)

RECURSIVE BallLoop_PaddleLast(_, _, _)
\* BallLoop resolving each ball against the paddle after the blocks.
BallLoop_PaddleLast(st, p, i) ==
    IF i > Len(st.balls)
    THEN st
    ELSE LET inner == BlockLoop([st EXCEPT !.ball = st.balls[i]], 1)
             r == resolve_collision(inner.ball.rect, inner.ball.vel, p.rect)
         IN  BallLoop_PaddleLast(
                 [inner EXCEPT !.balls[i] = [rect |-> r.a, vel |-> r.vel]], p, i + 1)

RECURSIVE BallLoop(_, _, _)
\* main.rs:245-261: the balls from the i-th on, each against the paddle and
\* then against every block.
BallLoop(st, p, i) ==
    IF i > Len(st.balls)
    THEN st
    ELSE LET ball == st.balls[i]
             r == resolve_collision(ball.rect, ball.vel, p.rect)
             inner == BlockLoop([st EXCEPT !.ball = [rect |-> r.a, vel |-> r.vel]], 1)
         IN  BallLoop([inner EXCEPT !.balls[i] = inner.ball], p, i + 1)

CollisionPass(bs, p, blks, sc, h) ==
    BallLoop([balls |-> bs, ball |-> bs[1], blocks |-> blks, score |-> sc,
              spawn_later |-> <<>>, hist |-> h], p, 1)

\* ------------------------------------------------------------------------
\* The end of a Game frame (main.rs:262-288)
\* ------------------------------------------------------------------------
\* main.rs:262-264
PushSpawned(bs, spawn_later, rxs) ==
    bs \o [k \in 1 .. Len(spawn_later) |-> BallNew(spawn_later[k], rxs[k])]

\* RetainBalls keeping a ball until it is wholly below the screen.
RetainBalls_UntilOut(bs) ==
    SelectSeq(bs, LAMBDA ball : ball.rect.y < ScreenHeight + ball.rect.h)

\* main.rs:268
RetainBalls(bs) == SelectSeq(bs, LAMBDA ball : ball.rect.y < ScreenHeight)

\* LifeLost without its `balls.is_empty()`: any ball lost costs a life.
LifeLost_AnyBall(balls_len, kept) ==
    LET removed_balls == balls_len - Len(kept)
    IN  removed_balls > 0

\* main.rs:271-272: the last ball went past the paddle.
LifeLost(balls_len, kept) ==
    LET removed_balls == balls_len - Len(kept)
    IN  removed_balls > 0 /\ kept = <<>>

\* main.rs:273
LoseLife(lives) == lives - 1

\* main.rs:274-277
ReplacementBall(p, rx) ==
    BallNew(Vec2(p.rect.x + (p.rect.w \div 2 - BALL_SIZE \div 2), p.rect.y - 50), rx)

\* RetainBlocks keeping the blocks that are at 0 lives.
RetainBlocks_KeepsZero(blks) == SelectSeq(blks, LAMBDA block : block.lives >= 0)

\* main.rs:284
RetainBlocks(blks) == SelectSeq(blks, LAMBDA block : block.lives > 0)

\* EndOfRound with `player_lives < 0` for `player_lives <= 0`.
EndOfRound_OffByOne(lost, lives, blks) ==
    LET after_lives == IF lost /\ lives < 0 THEN "Dead" ELSE "Game"
    IN  IF blks = <<>> THEN "Won" ELSE after_lives

\* EndOfRound with the loss of the last life deciding before the empty board.
EndOfRound_DeadFirst(lost, lives, blks) ==
    IF lost /\ lives <= 0 THEN "Dead"
    ELSE IF blks = <<>> THEN "Won" ELSE "Game"

\* main.rs:279-281 and 286-288: the mode a Game frame ends in.
EndOfRound(lost, lives, blks) ==
    LET after_lives == IF lost /\ lives <= 0 THEN "Dead" ELSE "Game"
    IN  IF blks = <<>> THEN "Won" ELSE after_lives

\* reset_game without its `*player_lives = 3`.
reset_game_KeepsLives(rx, rs) ==
    [paddle |-> PaddleNew,
     score |-> 0,
     player_lives |-> player_lives,
     balls |-> <<BallNew(Vec2(ScreenWidth \div 2 - BALL_SIZE \div 2,
                              ScreenHeight \div 2), rx)>>,
     blocks |-> init_blocks(<<>>, rs)]

\* reset_game (main.rs:165-179) with the random numbers it draws
reset_game(rx, rs) ==
    [paddle |-> PaddleNew,
     score |-> 0,
     player_lives |-> StartLives,
     balls |-> <<BallNew(Vec2(ScreenWidth \div 2 - BALL_SIZE \div 2,
                              ScreenHeight \div 2), rx)>>,
     blocks |-> init_blocks(<<>>, rs)]

\* ------------------------------------------------------------------------
\* Initial states
\* ------------------------------------------------------------------------
NoProbe == [pc |-> "off"]

TagsOf(rs) == {rs[n] : n \in DOMAIN rs}

\* main.rs:219-228: the state main builds before its loop.
InitConstructed ==
    \E rx \in RandXChoices, rs \in RandIndexSeqs :
        /\ game_state = "Menu"
        /\ score = 0
        /\ player_lives = StartLives
        /\ paddle = PaddleNew
        /\ blocks = init_blocks(<<>>, rs)
        /\ balls = <<BallNew(Vec2(ScreenWidth \div 2, (ScreenHeight * 6) \div 10), rx)>>
        /\ start_pressed = FALSE
        /\ obs = IdleObs("Menu", StartLives)
        /\ hist = NoHist
        /\ tagged = TagsOf(rs)
        /\ frame = 0
        /\ probe = NoProbe

\* A round in mid-play, which the frame budget does not reach from the
\* constructed state: the blocks outside `left` have been destroyed, each by
\* two hits of the one ball in play, and each block of `left` (grid index ->
\* lives) has taken the hits its lives show.  The board keeps its order, the
\* score and the history are those of that play, and the ball is where
\* Ball::update and resolve_collision can have put it.
MidRoundBlocks(rs, left) ==
    LET board == init_blocks(<<>>, rs)
        there == SelectSeq(board, LAMBDA block : GridIndex(block) \in DOMAIN left)
    IN  [k \in 1 .. Len(there) |-> [there[k] EXCEPT !.lives = left[GridIndex(there[k])]]]

MidRoundHist(rs, left) ==
    [i \in GridIndices |->
        IF i \in DOMAIN left
        THEN [hits |-> BlockLives - left[i], scored |-> 0, spawned |-> 0]
        ELSE [hits |-> BlockLives, scored |-> 1,
              spawned |-> IF i \in TagsOf(rs) THEN 1 ELSE 0]]

\* The blocks left, with their lives.
MidRoundBoards ==
    { (27 :> 1), (27 :> 2), (21 :> 1) @@ (27 :> 1), (21 :> 2) @@ (27 :> 1) }

\* The ball in play: its position and its velocity (in fifths).
MidRoundBalls ==
    { [rect |-> RectNew(98, 214, BALL_SIZE, BALL_SIZE), vel |-> Vec2(3, 4)],
      [rect |-> RectNew(175, 130, BALL_SIZE, BALL_SIZE), vel |-> Vec2(0, 5)],
      [rect |-> RectNew(20, 100, BALL_SIZE, BALL_SIZE), vel |-> Vec2(-3, 4)] }

MidRoundLives == {1, StartLives}

InitMidRound ==
    \E rs \in RandIndexSeqs, left \in MidRoundBoards, ball \in MidRoundBalls,
       lives \in MidRoundLives :
        /\ game_state = "Game"
        /\ score = ScorePerBlock * (NumBlocks - Cardinality(DOMAIN left))
        /\ player_lives = lives
        /\ paddle = PaddleNew
        /\ blocks = MidRoundBlocks(rs, left)
        /\ balls = <<ball>>
        /\ start_pressed = FALSE
        /\ obs = IdleObs("Game", lives)
        /\ hist = MidRoundHist(rs, left)
        /\ tagged = TagsOf(rs)
        /\ frame = MaxFrames \div 2
        /\ probe = NoProbe

Init == InitConstructed \/ InitMidRound

\* ------------------------------------------------------------------------
\* One turn of the loop of main (main.rs:230-302), by the arm it takes
\* ------------------------------------------------------------------------
\* main.rs:233-235: the mode after a Menu frame.
MenuArm(space) == IF space THEN "Game" ELSE "Menu"

\* EndArm restarting play at once.
EndArm_ToGame(mode, space) == IF space THEN "Game" ELSE mode

\* main.rs:291-292: the mode after a Won or Dead frame.
EndArm(mode, space) == IF space THEN "Menu" ELSE mode

\* MenuFrame with paddle.update run ahead of the match on the mode.
MenuFrame_MovesPaddle ==
    /\ game_state = "Menu"
    /\ frame < MaxFrames
    /\ \E space \in BOOLEAN :
        /\ start_pressed' = space
        /\ game_state' = MenuArm(space)
    /\ \E dt \in DtChoices, left \in BOOLEAN, right \in BOOLEAN :
         paddle' = PaddleUpdate(paddle, left, right, dt)
    /\ obs' = IdleObs("Menu", player_lives)
    /\ frame' = frame + 1
    /\ UNCHANGED <<score, player_lives, blocks, balls, hist, tagged, probe>>

\* main.rs:232-236
MenuFrame ==
    /\ game_state = "Menu"
    /\ frame < MaxFrames
    /\ \E space \in BOOLEAN :
        /\ start_pressed' = space
        /\ game_state' = MenuArm(space)
    /\ obs' = IdleObs("Menu", player_lives)
    /\ frame' = frame + 1
    /\ UNCHANGED <<score, player_lives, paddle, blocks, balls, hist, tagged, probe>>

\* main.rs:237-289.  Each step's value is bound once, in the order the code
\* computes it.
GameFrame ==
    /\ game_state = "Game"
    /\ frame < MaxFrames
    /\ \E dt \in DtChoices, left \in BOOLEAN, right \in BOOLEAN :
       \E p1 \in {PaddleUpdate(paddle, left, right, dt)} :
       \E moved \in {[i \in 1 .. Len(balls) |-> BallUpdate(balls[i], dt)]} :
       \E pass \in {CollisionPass(moved, p1, blocks, score, hist)} :
       \E rxs \in [1 .. Len(pass.spawn_later) -> RandXChoices] :
       \E all \in {PushSpawned(pass.balls, pass.spawn_later, rxs)} :
       \E kept \in {RetainBalls(all)} :
       \E lost \in {LifeLost(Len(all), kept)} :
       \E lives1 \in {IF lost THEN LoseLife(player_lives) ELSE player_lives} :
       \E blocks1 \in {RetainBlocks(pass.blocks)} :
            /\ paddle' = p1
            /\ \E rx \in IF lost THEN RandXChoices ELSE {0} :
                 balls' = IF lost THEN Append(kept, ReplacementBall(p1, rx))
                          ELSE kept
            /\ player_lives' = lives1
            /\ score' = pass.score
            /\ blocks' = blocks1
            /\ game_state' = EndOfRound(lost, lives1, blocks1)
            /\ hist' = pass.hist
            /\ obs' = [mode |-> "Game", lives |-> player_lives,
                       balls_len |-> Len(all), kept |-> Len(kept),
                       queued |-> Len(pass.spawn_later),
                       passed |-> Len(pass.balls),
                       spawn_at |-> pass.spawn_later]
    /\ start_pressed' = FALSE
    /\ frame' = frame + 1
    /\ UNCHANGED <<tagged, probe>>

\* main.rs:290-301
EndFrame ==
    /\ game_state \in {"Won", "Dead"}
    /\ frame < MaxFrames
    /\ \E space \in BOOLEAN :
        /\ start_pressed' = space
        /\ IF space
           THEN \E rx \in RandXChoices, rs \in RandIndexSeqs :
                  LET r == reset_game(rx, rs)
                  IN  /\ game_state' = EndArm(game_state, space)
                      /\ paddle' = r.paddle
                      /\ score' = r.score
                      /\ player_lives' = r.player_lives
                      /\ balls' = r.balls
                      /\ blocks' = r.blocks
                      /\ hist' = NoHist
                      /\ tagged' = TagsOf(rs)
           ELSE /\ game_state' = EndArm(game_state, space)
                /\ UNCHANGED <<paddle, score, player_lives, balls, blocks,
                               hist, tagged>>
    /\ obs' = IdleObs(game_state, player_lives)
    /\ frame' = frame + 1
    /\ UNCHANGED probe

Next == MenuFrame \/ GameFrame \/ EndFrame

Spec == Init /\ [][Next]_vars

\* The first round alone: from the state main constructs to the frame that
\* ends the round.
NextFirstRound == MenuFrame \/ GameFrame

SpecFirstRound == InitConstructed /\ [][NextFirstRound]_vars

\* ------------------------------------------------------------------------
\* resolve_collision on its own: a ball-sized rect against a block at the
\* origin, over the positions around and inside it
\* ------------------------------------------------------------------------
ProbeXs == {-60, -50, -25, 0, 25, 50, 75, 100, 110}
ProbeYs == {-60, -50, -30, -25, -5, 0, 20, 40, 50}
ProbeVels == {Vec2(3, 4), Vec2(-3, -4), Vec2(0, 5)}
ProbeStatic == RectNew(0, 0, BLOCK_SIZE.x, BLOCK_SIZE.y)

\* The round, untouched while resolve_collision is probed.
RoundAtRest ==
    /\ game_state = "Menu"
    /\ score = 0
    /\ player_lives = StartLives
    /\ paddle = PaddleNew
    /\ blocks = init_blocks(<<>>, [n \in 1 .. Retags |-> 21])
    /\ balls = <<BallNew(Vec2(ScreenWidth \div 2, (ScreenHeight * 6) \div 10), 0)>>
    /\ start_pressed = FALSE
    /\ obs = IdleObs("Menu", StartLives)
    /\ hist = NoHist
    /\ tagged = {21}
    /\ frame = 0

InitResolve ==
    /\ RoundAtRest
    /\ \E x \in ProbeXs, y \in ProbeYs, vel \in ProbeVels :
         probe = [pc |-> "call", a |-> RectNew(x, y, BALL_SIZE, BALL_SIZE),
                  vel |-> vel, b |-> ProbeStatic]

\* One call: resolve_collision(&mut a, &mut vel, &b).
ResolveCall ==
    /\ probe.pc = "call"
    /\ \E r \in {resolve_collision(probe.a, probe.vel, probe.b)} :
         probe' = [pc |-> "done", a0 |-> probe.a, vel0 |-> probe.vel,
                   b |-> probe.b, a |-> r.a, vel |-> r.vel, ret |-> r.hit]
    /\ UNCHANGED <<game_state, score, player_lives, paddle, blocks, balls,
                   start_pressed, obs, hist, tagged, frame>>

NextResolve == ResolveCall

SpecResolve == InitResolve /\ [][NextResolve]_vars

\* ------------------------------------------------------------------------
\* The board on its own: init_blocks as main calls it on its new Vec, and as
\* reset_game calls it after blocks.clear(), over draws of rand::gen_range
\* that reach the first and the last grid index
\* ------------------------------------------------------------------------
BoardIndexChoices == {0, 5, 14, 21, 29}

InitBoard ==
    /\ RoundAtRest
    /\ \E rs \in [1 .. Retags -> BoardIndexChoices] :
         probe = [pc |-> "board", rs |-> rs]

\* main.rs:224 and 228: init_blocks(&mut blocks) on the Vec main has just made.
StartupBoardCall ==
    /\ probe.pc = "board"
    /\ probe' = [pc |-> "built", via |-> "main", rs |-> probe.rs,
                 blocks |-> init_blocks(<<>>, probe.rs)]
    /\ UNCHANGED <<game_state, score, player_lives, paddle, blocks, balls,
                   start_pressed, obs, hist, tagged, frame>>

\* main.rs:177-178: reset_game's blocks.clear() and init_blocks(blocks), on
\* the board the round at rest holds.
ResetBoardCall ==
    /\ probe.pc = "board"
    /\ probe' = [pc |-> "built", via |-> "reset_game", rs |-> probe.rs,
                 blocks |-> reset_game(0, probe.rs).blocks]
    /\ UNCHANGED <<game_state, score, player_lives, paddle, blocks, balls,
                   start_pressed, obs, hist, tagged, frame>>

NextBoard == StartupBoardCall \/ ResetBoardCall

SpecBoard == InitBoard /\ [][NextBoard]_vars

\* ------------------------------------------------------------------------
\* Properties
\* ------------------------------------------------------------------------
Present(i) == \E k \in 1 .. Len(blocks) : GridIndex(blocks[k]) = i
LivesOf(i) ==
    LET k == CHOOSE k \in 1 .. Len(blocks) : GridIndex(blocks[k]) = i
    IN  blocks[k].lives

LegalChanges ==
    { <<"Menu", "Game">>, <<"Game", "Won">>, <<"Game", "Dead">>,
      <<"Won", "Menu">>, <<"Dead", "Menu">> }

\* C1: from one frame to the next the mode changes only Menu->Game,
\* Game->Won, Game->Dead, Won->Menu or Dead->Menu, and a frame that starts in
\* Menu, Won or Dead changes the mode exactly when the start key-press fires
\* in it; so a press in Won or Dead lands in Menu, never in Game.
C1_ModeTransitions ==
    [][ /\ game_state' # game_state => <<game_state, game_state'>> \in LegalChanges
        /\ game_state \in {"Menu", "Won", "Dead"} =>
              ((game_state' # game_state) <=> start_pressed')
      ]_vars

\* A press in Dead has landed in Menu.
C1_Witness == obs.mode = "Dead" /\ start_pressed /\ game_state = "Menu"

\* C2: a frame that starts in Won or Dead and sees the start key-press ends
\* in Menu with score 0, 3 lives, exactly one ball and 30 blocks of 2 lives.
C2_ResetOnStart ==
    [][ (game_state \in {"Won", "Dead"} /\ start_pressed') =>
            /\ game_state' = "Menu"
            /\ score' = 0
            /\ player_lives' = 3
            /\ Len(balls') = 1
            /\ Len(blocks') = 30
            /\ \A k \in 1 .. Len(blocks') : blocks'[k].lives = 2
      ]_vars

\* A press in Won (no block left, the score of a cleared board) has reset.
C2_Witness == obs.mode = "Won" /\ start_pressed /\ game_state = "Menu" /\ score = 0

\* C3: a Regular block still on the board has never been scored and has taken
\* the hits its lives show; one removed has taken exactly 2 collisions and
\* been scored exactly once.
C3_RegularTwoHitsOneScore ==
    \A i \in GridIndices \ tagged :
        /\ Present(i) => hist[i].scored = 0 /\ hist[i].hits = BlockLives - LivesOf(i)
        /\ ~Present(i) => hist[i].hits = 2 /\ hist[i].scored = 1

\* C4: a SpawnBallOnDeath block still on the board has queued no ball; one
\* destroyed has queued exactly one.
C4_OneSpawnPerBlock ==
    \A i \in tagged :
        /\ Present(i) => hist[i].spawned = 0
        /\ ~Present(i) => hist[i].spawned = 1

\* C5: the score is 10 times the number of blocks removed in the round, and
\* 300 when the mode is Won.
C5_ScoreCountsBlocks ==
    /\ score = 10 * (NumBlocks - Len(blocks))
    /\ game_state = "Won" => score = 300

\* C6: a Game frame whose removal of the balls past the bottom empties the
\* ball collection takes exactly one life and creates exactly one ball; any
\* other Game frame takes no life and creates no replacement ball.
C6_LifeLossOnEmpty ==
    [][ game_state = "Game" =>
          IF obs'.balls_len > 0 /\ obs'.kept = 0
          THEN player_lives' = player_lives - 1 /\ Len(balls') = obs'.kept + 1
          ELSE player_lives' = player_lives /\ Len(balls') = obs'.kept
      ]_vars

\* A life was lost, play goes on with the replacement ball.
C6_Witness ==
    /\ obs.mode = "Game" /\ obs.balls_len > 0 /\ obs.kept = 0
    /\ player_lives = obs.lives - 1 /\ game_state = "Game" /\ Len(balls) = 1

\* C7: a Game frame that brings the lives to 0 ends in Dead, also when it
\* destroys the last block.
C7_DeadAtZeroLives ==
    (obs.mode = "Game" /\ obs.lives > 0 /\ player_lives = 0) => game_state = "Dead"

\* C8: the lives are in 0..3, never 0 in mode Game, and change only by one
\* down in a Game frame or by the reset to 3.
C8_LivesRange ==
    /\ [](player_lives \in 0 .. 3 /\ (game_state = "Game" => player_lives # 0))
    /\ [][ \/ player_lives' = player_lives
           \/ game_state = "Game" /\ player_lives' = player_lives - 1
           \/ game_state \in {"Won", "Dead"} /\ start_pressed' /\ player_lives' = 3
         ]_vars

\* The last life is gone.
C8_Witness == player_lives = 0 /\ game_state = "Dead" /\ obs.mode = "Game"

\* C9: every ball's velocity has magnitude 1 (VelScale fifths).
C9_UnitVelocity ==
    \A k \in 1 .. Len(balls) :
        balls[k].vel.x * balls[k].vel.x + balls[k].vel.y * balls[k].vel.y
            = VelScale * VelScale

InteriorsDisjoint(a, b) ==
    \/ a.x + a.w <= b.x
    \/ b.x + b.w <= a.x
    \/ a.y + a.h <= b.y
    \/ b.y + b.h <= a.y

\* C10: after resolve_collision returns true the moving rect no longer
\* overlaps the static one.
C10_NoOverlapAfterResolve ==
    (probe.pc = "done" /\ probe.ret) => InteriorsDisjoint(probe.a, probe.b)

\* Two rects with no point in common: one lies wholly to a side of the other.
Apart(a, b) ==
    \/ a.x + a.w < b.x
    \/ b.x + b.w < a.x
    \/ a.y + a.h < b.y
    \/ b.y + b.h < a.y

\* C11: on rects with an empty intersection resolve_collision returns false
\* and leaves the position and the velocity of the moving rect as they were;
\* it returns true only when the intersection is not empty.
C11_FalseWhenApart ==
    probe.pc = "done" =>
        /\ Apart(probe.a0, probe.b) =>
              ~probe.ret /\ probe.a = probe.a0 /\ probe.vel = probe.vel0
        /\ probe.ret => ~Apart(probe.a0, probe.b)

\* A call on rects that are apart has returned false, with a velocity the
\* bounce would have changed.
C11_Witness ==
    /\ probe.pc = "done" /\ Apart(probe.a0, probe.b) /\ ~probe.ret
    /\ probe.vel0.y > 0 /\ probe.a0.y < probe.b.y

\* The velocities Ball::new can give a ball.
FreshVels == {Normalize(rx) : rx \in RandXChoices}

\* C12: the collision pass of a Game frame goes over exactly the balls the
\* frame started with, the balls it queues join the collection after it, and
\* a queued ball that stays on screen ends the frame as Ball::new made it, at
\* the position it was queued at: no collision check has moved or bounced it.
C12_SpawnAfterLoop ==
    [][ game_state = "Game" =>
          /\ obs'.passed = Len(balls)
          /\ obs'.balls_len = Len(balls) + obs'.queued
          /\ \A k \in 1 .. obs'.queued :
                LET pos == obs'.spawn_at[k]
                IN  pos.y < ScreenHeight =>
                      \E n \in 1 .. Len(balls') :
                          /\ n > obs'.kept - obs'.queued
                          /\ balls'[n].rect = RectNew(pos.x, pos.y, BALL_SIZE, BALL_SIZE)
                          /\ balls'[n].vel \in FreshVels
      ]_vars

\* Two balls went through the collision pass and one of them queued a third.
C12_Witness ==
    /\ obs.mode = "Game" /\ obs.passed >= 2 /\ obs.queued >= 1
    /\ obs.balls_len = obs.passed + obs.queued /\ Len(balls) >= 3

\* The blocks of a board that are SpawnBallOnDeath.
SpawnBlocks(bs) == {k \in 1 .. Len(bs) : bs[k].block_type = "SpawnBallOnDeath"}

\* C13: init_blocks on an empty collection yields exactly 30 blocks of 2
\* lives, the block of grid index i in column i % 6 and row i / 6 of the
\* grid of 105 x 45 cells, between 1 and 3 of them SpawnBallOnDeath and the
\* others Regular.
C13_BoardShape ==
    probe.pc = "built" =>
        /\ Len(probe.blocks) = 30
        /\ \A i \in 0 .. 29 :
              /\ probe.blocks[i + 1].lives = 2
              /\ probe.blocks[i + 1].rect =
                    RectNew((ScreenWidth - 630) \div 2 + (i % 6) * 105,
                            50 + (i \div 6) * 45, 100, 40)
              /\ probe.blocks[i + 1].block_type \in {"Regular", "SpawnBallOnDeath"}
        /\ Cardinality(SpawnBlocks(probe.blocks)) \in 1 .. 3

\* reset_game has rebuilt the board and the three draws fell on one index:
\* a single SpawnBallOnDeath block, the last of the grid.
C13_Witness ==
    /\ probe.pc = "built" /\ probe.via = "reset_game"
    /\ SpawnBlocks(probe.blocks) = {30}

\* C14: the paddle is always within the screen horizontally,
\* 0 <= x <= screen_width - width, whatever keys are held and whatever the
\* frame times, and no step changes its vertical position.
C14_PaddleInBounds ==
    /\ [](0 <= paddle.rect.x /\ paddle.rect.x <= ScreenWidth - paddle.rect.w)
    /\ [][paddle'.rect.y = paddle.rect.y]_vars

\* A Game frame has stopped the paddle at the right wall.
C14_Witness ==
    /\ obs.mode = "Game"
    /\ paddle.rect.x = ScreenWidth - PADDLE_SIZE.x
    /\ paddle.rect.y = PaddleNew.rect.y

\* C15: a frame that starts in Menu, Won or Dead leaves the paddle, the
\* balls, the blocks, the score and the lives as they were, unless it is a
\* Won or Dead frame in which the start key-press fires (the reset).
C15_NoPhysicsOutsideGame ==
    [][ ( /\ game_state \in {"Menu", "Won", "Dead"}
          /\ ~(game_state \in {"Won", "Dead"} /\ start_pressed') ) =>
            UNCHANGED <<paddle, balls, blocks, score, player_lives>>
      ]_vars

\* A Menu frame has started a round that began with the reset of a lost one:
\* the board, the ball and the score are still those of the reset.
C15_Witness ==
    /\ obs.mode = "Menu" /\ start_pressed /\ game_state = "Game"
    /\ frame = MaxFrames /\ player_lives = StartLives /\ score = 0
    /\ Len(blocks) = NumBlocks /\ paddle = PaddleNew

\* C16: a Game frame ends in Won exactly when no block is left after its
\* removal of the blocks with lives <= 0; so no frame starts in Game with an
\* empty block collection.
C16_WonIffNoBlocks ==
    /\ [][game_state = "Game" => (game_state' = "Won" <=> blocks' = <<>>)]_vars
    /\ [](game_state = "Game" => blocks # <<>>)

\* A Game frame has removed the last block and ended in Won.
C16_Witness ==
    /\ obs.mode = "Game" /\ game_state = "Won" /\ blocks = <<>>
    /\ score >= ScorePerBlock * NumBlocks

\* The extent of the overlap of two rects along x and along y.
OverlapW(a, b) == Min(a.x + a.w, b.x + b.w) - Max(a.x, b.x)
OverlapH(a, b) == Min(a.y + a.h, b.y + b.h) - Max(a.y, b.y)

\* The sign of d, with 0 taken as +1.
SignOf(d) == IF d < 0 THEN -1 ELSE 1

PaddlePass(bs, p) ==
    [i \in 1 .. Len(bs) |->
        LET r == resolve_collision(bs[i].rect, bs[i].vel, p.rect)
        IN  [rect |-> r.a, vel |-> r.vel]]

RECURSIVE BlockPass(_, _)
\* ... then step 4, every ball (from the i-th on) against every block.
BlockPass(st, i) ==
    IF i > Len(st.balls)
    THEN st
    ELSE LET inner == BlockLoop([st EXCEPT !.ball = st.balls[i]], 1)
         IN  BlockPass([inner EXCEPT !.balls[i] = inner.ball], i + 1)

TwoPasses(bs, p, blks, sc, h) ==
    BlockPass([balls |-> PaddlePass(bs, p), ball |-> bs[1], blocks |-> blks,
               score |-> sc, spawn_later |-> <<>>, hist |-> h], 1)

\* What a pass leaves for the rest of the frame.
Outcome(st) ==
    [balls |-> st.balls, blocks |-> st.blocks, score |-> st.score,
     spawn_later |-> st.spawn_later]

\* C18: in every state a Game frame can start in, and for every frame time
\* and key state, the collision pass of the code (each ball against the paddle
\* and then against every block) leaves the same balls, blocks, score and
\* queued spawns as a paddle pass over all balls followed by a ball-by-block
\* pass.
C18_PassOrderEquivalent ==
    game_state = "Game" =>
        \A dt \in DtChoices :
        \A p1 \in {PaddleUpdate(paddle, left, right, dt) :
                        left \in BOOLEAN, right \in BOOLEAN} :
        \A moved \in {[i \in 1 .. Len(balls) |-> BallUpdate(balls[i], dt)]} :
            Outcome(CollisionPass(moved, p1, blocks, score, hist))
                = Outcome(TwoPasses(moved, p1, blocks, score, hist))

\* A frame about to run with two balls, in which a ball bounces off the
\* paddle, a block is destroyed and a ball is queued.
C18_Witness ==
    /\ game_state = "Game" /\ Len(balls) >= 2 /\ frame < MaxFrames
    /\ \E dt \in DtChoices, left \in BOOLEAN, right \in BOOLEAN :
         LET p1 == PaddleUpdate(paddle, left, right, dt)
             moved == [i \in 1 .. Len(balls) |-> BallUpdate(balls[i], dt)]
             pass == CollisionPass(moved, p1, blocks, score, hist)
         IN  /\ PaddlePass(moved, p1) # moved
             /\ pass.score > score
             /\ pass.spawn_later # <<>>

\* C19: the ball collection is never empty, and after a Game frame it holds
\* no ball whose y is at or past the bottom of the screen.
C19_BallsLeft ==
    /\ balls # <<>>
    /\ obs.mode = "Game" => \A k \in 1 .. Len(balls) : balls[k].rect.y < ScreenHeight

\* A Game frame has removed a ball and kept another.
C19_Witness ==
    /\ obs.mode = "Game" /\ obs.kept >= 1 /\ obs.kept < obs.balls_len
    /\ Len(balls) = obs.kept

\* C20: every block in the block collection has 1 or 2 lives: a block brought
\* to 0 lives or below is gone when the frame that did it ends.
C20_BlockLives ==
    \A k \in 1 .. Len(blocks) : blocks[k].lives \in {1, 2}

\* A Game frame of the first round has removed a block, and a block that was
\* hit once is still on the board.
C20_Witness ==
    /\ obs.mode = "Game" /\ obs.passed >= 1
    /\ Len(blocks) = NumBlocks - 1
    /\ \E k \in 1 .. Len(blocks) : blocks[k].lives = 1
    /\ \E i \in GridIndices : ~Present(i) /\ hist[i].scored >= 1

=============================================================================
